---- MODULE Spec2Model ----
(***************************************************************************)
(* Frame geometry (window.rs) and the streaming accumulator OnlineFeature  *)
(* (online.rs) of kaldi-native-fbank.                                      *)
(*                                                                         *)
(* Samples are small integers.  Dither is disabled (opts.dither = 0), so   *)
(* every stage after the copy loop of extract_window (DC removal,          *)
(* pre-emphasis, raw log-energy, windowing) and FeatureComputer::compute   *)
(* is a deterministic function of the copied samples and of the            *)
(* configuration; a feature vector is therefore represented by the term    *)
(* compute(window_out) over the copied frame.  In the accumulator model    *)
(* compute is taken to return; what the feature computers themselves do    *)
(* (fbank.rs, mfcc.rs), mel-bank construction (mel.rs) and the packed real *)
(* transform (rfft.rs) are modelled by specifications of their own below.  *)
(***************************************************************************)
EXTENDS Integers, Sequences, FiniteSets, TLC

\* ---- bounds of the model ------------------------------------------------
MaxFrameMs == 3
MaxShiftMs == 3
MaxSamples == 6
MaxChunk == 3
MaxCount == 20
SampleValues == {0, 1}

\* samp_freq of the modelled configurations: 1 sample per millisecond, so
\* that window_size() and window_shift() range over 1..MaxFrameMs/MaxShiftMs.
ModelSampFreq == 1000

VARIABLES
    opts,             \* FrameOptions of the computer (immutable)
    waveform,         \* OnlineFeature.waveform: retained samples
    waveform_offset,  \* OnlineFeature.waveform_offset
    input_finished,   \* OnlineFeature.input_finished
    features,         \* OnlineFeature.features
    status,           \* "ok": last call returned; "panic": it aborted;
                      \* "hang": it is stuck in a loop that never exits
    accepted,         \* history: every sample appended so far, in order
    extract_calls,    \* history: the extract_window calls of the last
                      \* handler, with their arguments and results
    window_function,  \* OnlineFeature.window_function: Option<Window>
    last_call,        \* history: the last call of the accumulator's API
    got,              \* the value returned by the last get_frame call
    computer,         \* a FbankComputer or MfccComputer under test
    feature,          \* the output vector and outcome of its last compute
    mel_banks,        \* the outcome of a mel-bank construction
    rfft,             \* a buffer taken through Rfft::compute
    applied           \* a function of window.rs applied on its own: its
                      \* arguments and what it returned

online_vars == <<opts, waveform, waveform_offset, input_finished, features,
                 status, accepted, extract_calls, window_function>>

vars == <<opts, waveform, waveform_offset, input_finished, features,
          status, accepted, extract_calls, window_function, last_call, got,
          computer, feature, mel_banks, rfft, applied>>

\* value of a variable that the specification at hand does not use
Unused == [kind |-> "unused"]

\* ---- window.rs ------------------------------------------------------------

\* FrameOptions::window_shift: (samp_freq * 0.001 * frame_shift_ms) as usize
window_shift(o) == (o.samp_freq * o.frame_shift_ms) \div 1000

\* FrameOptions::window_size: (samp_freq * 0.001 * frame_length_ms) as usize
window_size(o) == (o.samp_freq * o.frame_length_ms) \div 1000

\* mutant of next_power_of_two: the smallest power of two above n
next_power_of_two_above(n) ==
    LET RECURSIVE above(_)
        above(p) == IF p > n THEN p ELSE above(2 * p)
    IN  above(1)

\* usize::next_power_of_two: the smallest power of two >= n (1 for n = 0)
next_power_of_two(n) ==
    LET RECURSIVE from(_)
        from(p) == IF p >= n THEN p ELSE from(2 * p)
    IN  from(1)

\* FrameOptions::padded_window_size
padded_window_size(o) ==
    LET size == window_size(o)
    IN  IF o.round_to_power_of_two THEN next_power_of_two(size) ELSE size

\* the window types matched by Window::new
WindowTypes ==
    {"hanning", "sine", "hamming", "hann", "povey", "rectangular", "blackman"}

\* Window::new: None for an empty window or a window type that no match
\* arm names, else Some(data) with one coefficient per sample of the frame
Window_new(o) ==
    IF window_size(o) = 0 THEN [kind |-> "None"]
    ELSE IF o.window_type \notin WindowTypes THEN [kind |-> "None"]
    ELSE [kind |-> "Some", len |-> window_size(o), window_type |-> o.window_type]

\* mutant of first_sample_of_frame: the centered frame is not moved back by
\* half a frame
first_sample_of_frame_uncentered(frame, o) ==
    IF o.snip_edges
    THEN frame * window_shift(o)
    ELSE window_shift(o) * frame + window_shift(o) \div 2

\* first_sample_of_frame: isize arithmetic, operands of / are non-negative
first_sample_of_frame(frame, o) ==
    IF o.snip_edges
    THEN frame * window_shift(o)
    ELSE (window_shift(o) * frame + window_shift(o) \div 2)
         - (window_size(o) \div 2)

\* mutant of num_frames_adjust: the count is never decremented
num_frames_adjust_none(n, num_samples, o) == n

\* the `while num_frames > 0` loop of num_frames
RECURSIVE num_frames_adjust(_, _, _)
num_frames_adjust(n, num_samples, o) ==
    IF n > 0 /\ first_sample_of_frame(n - 1, o) + window_size(o) > num_samples
    THEN num_frames_adjust(n - 1, num_samples, o)
    ELSE n

\* mutant of num_frames_rounded: the quotient is truncated, not rounded
num_frames_rounded_floor(num_samples, o) == num_samples \div window_shift(o)

\* ((num_samples as f32 + frame_shift as f32 / 2.0) / frame_shift as f32) as usize
num_frames_rounded(num_samples, o) ==
    (2 * num_samples + window_shift(o)) \div (2 * window_shift(o))

\* mutant of num_frames: a waveform of exactly one frame yields no frame
num_frames_strict(num_samples, o, flush) ==
    IF o.snip_edges
    THEN IF num_samples <= window_size(o)
         THEN 0
         ELSE 1 + (num_samples - window_size(o)) \div window_shift(o)
    ELSE IF flush
         THEN num_frames_rounded(num_samples, o)
         ELSE num_frames_adjust(num_frames_rounded(num_samples, o), num_samples, o)

\* num_frames
num_frames(num_samples, o, flush) ==
    IF o.snip_edges
    THEN IF num_samples < window_size(o)
         THEN 0
         ELSE 1 + (num_samples - window_size(o)) \div window_shift(o)
    ELSE IF flush
         THEN num_frames_rounded(num_samples, o)
         ELSE num_frames_adjust(num_frames_rounded(num_samples, o), num_samples, o)

\* mutant of reflect: an index out of range is moved to the nearest end
reflect_clamped(idx, len) ==
    IF idx < 0 THEN 0 ELSE IF idx >= len THEN len - 1 ELSE idx

\* the reflective-padding `while` loop of extract_window, for len >= 1
RECURSIVE reflect(_, _)
reflect(idx, len) ==
    IF idx < 0 THEN reflect(-idx - 1, len)
    ELSE IF idx >= len THEN reflect(2 * len - 1 - idx, len)
    ELSE idx

\* With an empty slice the loop condition idx < 0 || idx >= 0 is always
\* true: the loop never exits.
reflect_diverges(len) == len = 0

\* extract_window up to the end of the copy loop.  result is "Ok", "Err"
\* (the function returned Err(())) or "Hang" (the copy loop never exits);
\* window_out holds the first window_size() entries of the output buffer.
extract_window(sample_offset, wave, frame_index, o) ==
    LET frame_length == window_size(o)
        num_samples  == sample_offset + Len(wave)
        start_sample == first_sample_of_frame(frame_index, o)
        end_sample   == start_sample + frame_length
        wave_start   == start_sample - sample_offset
        rejected     ==
            IF o.snip_edges
            THEN start_sample < sample_offset \/ end_sample > num_samples
            ELSE ~(sample_offset = 0 \/ start_sample >= sample_offset)
    IN  IF rejected
        THEN [result |-> "Err", window_out |-> <<>>]
        ELSE IF frame_length > 0 /\ reflect_diverges(Len(wave))
        THEN [result |-> "Hang", window_out |-> <<>>]
        ELSE [result |-> "Ok",
              window_out |->
                [s \in 1..frame_length |->
                    wave[reflect((s - 1) + wave_start, Len(wave)) + 1]]]

\* ---- online.rs ------------------------------------------------------------

\* FeatureComputer::compute on the frame returned by extract_window
compute(window_buf) == <<"feature", window_buf>>

\* mutant of push: the new vector takes the place of the last one
push_over_last(feats, v) ==
    IF feats = <<>> THEN <<v>> ELSE [feats EXCEPT ![Len(feats)] = v]

\* self.features.push(feature_vec)
push(feats, v) == Append(feats, v)

\* the `for frame in prev_frames..new_frames` loop of compute_new; acc is
\* [status, features, calls]
RECURSIVE compute_frames(_, _, _, _, _, _)
compute_frames(frame, new_frames, offset, wave, o, acc) ==
    IF frame >= new_frames
    THEN acc
    ELSE LET r    == extract_window(offset, wave, frame, o)
             call == [frame |-> frame, sample_offset |-> offset,
                      num_samples |-> offset + Len(wave), result |-> r.result,
                      window_out |-> r.window_out]
         IN  IF r.result = "Ok"
             THEN compute_frames(frame + 1, new_frames, offset, wave, o,
                     [status   |-> "ok",
                      features |-> push(acc.features, compute(r.window_out)),
                      calls    |-> acc.calls \cup {call}])
             ELSE [status   |-> IF r.result = "Err" THEN "panic" ELSE "hang",
                   features |-> acc.features,
                   calls    |-> acc.calls \cup {call}]

\* the "Garbage collect waveform" block of compute_new: how many leading
\* samples of the buffer are dropped
discarded(new_frames, offset, wave, o) ==
    LET discard == first_sample_of_frame(new_frames, o) - offset
    IN  IF discard > 0 /\ discard <= Len(wave) THEN discard ELSE 0

\* mutant of drain: the offset advances but the prefix is kept
drain_none(wave, discard) == wave

\* self.waveform.drain(0..discard)
drain(wave, discard) == SubSeq(wave, discard + 1, Len(wave))

\* mutant of nothing_new: a single newly ready frame is not computed
nothing_new_late(new_frames, prev_frames) == new_frames <= prev_frames + 1

\* the early return of compute_new
nothing_new(new_frames, prev_frames) == new_frames <= prev_frames

\* mutant of frames_computed: the last computed frame is not counted
frames_computed_stale(feats) == IF Len(feats) > 0 THEN Len(feats) - 1 ELSE 0

\* let prev_frames = self.features.len()
frames_computed(feats) == Len(feats)

\* OnlineFeature::compute_new on the buffer `wave` and flag `finished`
compute_new(wave, finished) ==
    LET total_samples == waveform_offset + Len(wave)
        prev_frames   == frames_computed(features)
        new_frames    == num_frames(total_samples, opts, finished)
    IN  IF nothing_new(new_frames, prev_frames)
        THEN /\ features' = features
             /\ waveform' = wave
             /\ waveform_offset' = waveform_offset
             /\ status' = "ok"
             /\ extract_calls' = {}
        ELSE LET done == compute_frames(prev_frames, new_frames,
                            waveform_offset, wave, opts,
                            [status |-> "ok", features |-> features, calls |-> {}])
                 d    == IF done.status = "ok"
                         THEN discarded(new_frames, waveform_offset, wave, opts)
                         ELSE 0
             IN  /\ features' = done.features
                 /\ status' = done.status
                 /\ extract_calls' = done.calls
                 /\ waveform' = drain(wave, d)
                 /\ waveform_offset' = waveform_offset + d

\* sequences over SampleValues of length at most n
RECURSIVE SeqsUpTo(_)
SeqsUpTo(n) ==
    IF n = 0 THEN {<<>>}
    ELSE LET shorter == SeqsUpTo(n - 1)
         IN  shorter \cup {Append(w, v) : w \in {x \in shorter : Len(x) = n - 1},
                                          v \in SampleValues}

\* sampling rates a caller passes: the configured one, one within the
\* tolerance of 1.0 and one outside it
Rates(o) == {o.samp_freq - 2, o.samp_freq, o.samp_freq + 1, o.samp_freq + 2}

\* mutant of rate_mismatch: any difference of the two rates is a mismatch
rate_mismatch_exact(sampling_rate, o) == sampling_rate # o.samp_freq

\* (sampling_rate - opts.samp_freq).abs() > 1.0
rate_mismatch(sampling_rate, o) ==
    sampling_rate - o.samp_freq > 1 \/ o.samp_freq - sampling_rate > 1

\* the variables of the component specifications, which the accumulator
\* does not touch
component_vars == <<computer, feature, mel_banks, rfft, applied>>

\* OnlineFeature::accept_waveform(sampling_rate, chunk)
accept_waveform(sampling_rate, chunk) ==
    /\ IF rate_mismatch(sampling_rate, opts)
       THEN /\ status' = "panic"
            /\ extract_calls' = {}
            /\ UNCHANGED <<waveform, waveform_offset, features, accepted>>
       ELSE /\ accepted' = accepted \o chunk
            /\ compute_new(waveform \o chunk, input_finished)
    /\ UNCHANGED <<opts, input_finished, window_function, got, component_vars>>

\* OnlineFeature::input_finished()
finish_input ==
    /\ input_finished' = TRUE
    /\ compute_new(waveform, TRUE)
    /\ UNCHANGED <<opts, accepted, window_function, got, component_vars>>

\* OnlineFeature::accept_waveform over the modelled arguments
AcceptWaveform ==
    /\ status = "ok"
    /\ \E sampling_rate \in Rates(opts), chunk \in SeqsUpTo(MaxChunk) :
        /\ Len(accepted) + Len(chunk) <= MaxSamples
        /\ accept_waveform(sampling_rate, chunk)
    /\ UNCHANGED last_call

\* OnlineFeature::input_finished
InputFinished ==
    /\ status = "ok"
    /\ finish_input
    /\ UNCHANGED last_call

\* the modelled FrameOptions with the given window types
ConfigsWith(window_types) ==
    [samp_freq       : {ModelSampFreq},
     frame_shift_ms  : 1..MaxShiftMs,
     frame_length_ms : 1..MaxFrameMs,
     snip_edges      : BOOLEAN,
     window_type     : window_types]

\* the modelled FrameOptions with the default window type
Configs == ConfigsWith({"povey"})

\* OnlineFeature::new(computer) for a computer with frame options o
OnlineFeature_new(o) ==
    /\ opts = o
    /\ window_function = Window_new(o)
    /\ waveform = <<>>
    /\ waveform_offset = 0
    /\ input_finished = FALSE
    /\ features = <<>>
    /\ status = "ok"
    /\ accepted = <<>>
    /\ extract_calls = {}
    /\ last_call = [op |-> "new", sampling_rate |-> 0, repeated |-> FALSE]
    /\ got = Unused
    /\ computer = Unused
    /\ feature = Unused
    /\ mel_banks = Unused
    /\ rfft = Unused
    /\ applied = Unused

Init == \E o \in Configs : OnlineFeature_new(o)

Next == AcceptWaveform \/ InputFinished

Spec == Init /\ [][Next]_vars

\* ---- the accumulator with its calls recorded --------------------------------

\* accept_waveform, recorded in last_call
AcceptWaveformCall ==
    /\ status = "ok"
    /\ \E sampling_rate \in Rates(opts), chunk \in SeqsUpTo(MaxChunk) :
        /\ Len(accepted) + Len(chunk) <= MaxSamples
        /\ accept_waveform(sampling_rate, chunk)
        /\ last_call' = [op |-> "accept_waveform",
                         sampling_rate |-> sampling_rate,
                         repeated |-> FALSE]

\* input_finished, recorded in last_call; repeated tells that the call
\* before it was input_finished too
InputFinishedCall ==
    /\ status = "ok"
    /\ finish_input
    /\ last_call' = [op |-> "input_finished",
                     sampling_rate |-> 0,
                     repeated |-> last_call.op = "input_finished"]

CallNext == AcceptWaveformCall \/ InputFinishedCall

CallSpec == Init /\ [][CallNext]_vars

\* ---- the batch (offline) computation ---------------------------------------

\* frame i of the whole waveform: extract_window with sample_offset 0, then
\* compute (tests/all.rs, test_feature_demo)
offline_feature(i, wave, o) ==
    LET r == extract_window(0, wave, i, o)
    IN  IF r.result = "Ok" THEN compute(r.window_out) ELSE <<"none", r.result>>

\* the global sample index that position s of frame k reads in the
\* whole-waveform computation over n samples
offline_index(k, s, n, o) ==
    IF o.snip_edges
    THEN first_sample_of_frame(k, o) + s
    ELSE reflect(first_sample_of_frame(k, o) + s, n)

frame_samples == window_size(opts)
shift_samples == window_shift(opts)
total_samples == Len(accepted)

\* ---- C1 ----------------------------------------------------------------------
BatchSequence ==
    /\ status = "ok"
    /\ Len(features) = num_frames(total_samples, opts, TRUE)
    /\ \A i \in 1..Len(features) :
          features[i] = offline_feature(i - 1, accepted, opts)

\* C1: feeding the chunks in order and then calling input_finished once
\* yields exactly the batch feature sequence of the whole waveform: the call
\* that finishes the stream returns, the number of frames is
\* num_frames(total, flush = true) and every frame equals the batch frame.
StreamEqualsBatchAtFinish ==
    [][(~input_finished /\ input_finished') => BatchSequence']_vars

\* ---- C2 ----------------------------------------------------------------------
\* C2: in every reachable state every computed feature equals the offline
\* feature of the same frame over all samples accepted so far.
FeaturesEqualOffline ==
    \A i \in 1..Len(features) :
        features[i] = offline_feature(i - 1, accepted, opts)

\* ---- C3 ----------------------------------------------------------------------
\* C3: whenever compute_new extracts frame k, every global sample index the
\* whole-waveform computation reads for frame k is still in the buffer, that
\* is, not below waveform_offset.
NoReferencedSampleDiscarded ==
    \A c \in extract_calls :
        \A s \in 0..(frame_samples - 1) :
            offline_index(c.frame, s, c.num_samples, opts) >= c.sample_offset

\* ---- C4 ----------------------------------------------------------------------
\* C4: waveform_offset never decreases, and waveform_offset + buffer.len()
\* is the number of samples accepted so far.
OffsetTracksAccepted ==
    /\ [](waveform_offset + Len(waveform) = total_samples)
    /\ [][waveform_offset' >= waveform_offset]_vars

\* a state after a garbage collection that kept part of the buffer
OffsetAdvanced ==
    /\ status = "ok"
    /\ waveform_offset > 0
    /\ Len(waveform) > 0

\* ---- C5 ----------------------------------------------------------------------
\* C5: after the calls made so far have returned, num_frames_ready() equals
\* num_frames(total samples accepted, opts, input_finished).
FramesReadyMatchGeometry ==
    status = "ok" =>
        Len(features) = num_frames(total_samples, opts, input_finished)

\* input_finished has produced a trailing frame after several chunks
TrailingFrameReady ==
    /\ status = "ok"
    /\ input_finished
    /\ waveform_offset > 0
    /\ Len(features) > num_frames(total_samples, opts, FALSE)

\* ---- C6 ----------------------------------------------------------------------
KaldiDefault ==
    [samp_freq |-> 16000, frame_shift_ms |-> 10, frame_length_ms |-> 25,
     snip_edges |-> TRUE]

\* C6: in the snip regime num_frames(n) is 0 when n < frame_samples and
\* 1 + floor((n - frame_samples) / shift_samples) otherwise, whatever the
\* flush flag: it counts the frames [k*shift, k*shift + frame_samples) that
\* lie inside the n samples; 400/160 samples and n = 16000 give 98.
SnipFrameCount ==
    /\ opts.snip_edges =>
          \A n \in 0..MaxCount, flush \in BOOLEAN :
              /\ num_frames(n, opts, flush) =
                    IF n < frame_samples
                    THEN 0
                    ELSE 1 + (n - frame_samples) \div shift_samples
              /\ num_frames(n, opts, flush) =
                    Cardinality({k \in 0..n : k * shift_samples + frame_samples <= n})
    /\ \A flush \in BOOLEAN : num_frames(16000, KaldiDefault, flush) = 98

\* the accumulator has computed snip-regime frames and the division rounded
\* down
SnipFramesComputed ==
    /\ opts.snip_edges
    /\ status = "ok"
    /\ Len(features) >= 2
    /\ (total_samples - frame_samples) % shift_samples # 0

\* ---- C7 ----------------------------------------------------------------------
claimed_start(k) ==
    IF opts.snip_edges
    THEN k * shift_samples
    ELSE k * shift_samples + shift_samples \div 2 - frame_samples \div 2

\* C7: frame k starts at k*shift in the snip regime and at
\* k*shift + shift/2 - frame_samples/2 in the centered regime, and
\* extract_window fills positions 0..frame_samples of its output with the
\* samples that start at that global index (every position whose index is
\* inside the buffer holds that very sample; in the snip regime all are).
FrameStartAndCopy ==
    /\ \A k \in 0..MaxCount : first_sample_of_frame(k, opts) = claimed_start(k)
    /\ \A c \in extract_calls :
          c.result = "Ok" =>
             /\ Len(c.window_out) = frame_samples
             /\ \A s \in 0..(frame_samples - 1) :
                   LET g == claimed_start(c.frame) + s
                   IN  (g >= c.sample_offset /\ g < c.num_samples) =>
                           c.window_out[s + 1] = accepted[g + 1]
             /\ opts.snip_edges =>
                   /\ claimed_start(c.frame) >= c.sample_offset
                   /\ claimed_start(c.frame) + frame_samples <= c.num_samples

\* a centered frame with a negative start and a later frame read from a
\* buffer whose prefix was discarded have both been extracted
CenteredFrameExtracted ==
    /\ ~opts.snip_edges
    /\ \E c \in extract_calls :
          c.result = "Ok" /\ claimed_start(c.frame) < 0
    /\ \E c \in extract_calls :
          c.result = "Ok" /\ c.frame > 0

\* ---- C8 ----------------------------------------------------------------------
\* C8: in the centered regime with flush = false every frame below
\* num_frames(n) ends inside the n samples.
ReadyFramesComplete ==
    ~opts.snip_edges =>
        \A n \in 0..MaxCount :
            \A k \in 0..(num_frames(n, opts, FALSE) - 1) :
                first_sample_of_frame(k, opts) + frame_samples <= n

\* before finalization the rounded count was decremented and frames are ready
CountDecremented ==
    /\ ~opts.snip_edges
    /\ ~input_finished
    /\ status = "ok"
    /\ Len(features) >= 1
    /\ Len(features) < num_frames_rounded(total_samples, opts)

\* ---- C9 ----------------------------------------------------------------------
\* C9: in the centered regime with flush = true num_frames(n) is n / shift
\* rounded to the nearest integer, halves up, that is
\* floor((n + shift/2) / shift), with no decrement.
FlushedCountRounds ==
    ~opts.snip_edges =>
        \A n \in 0..MaxCount :
            LET r == num_frames(n, opts, TRUE)
            IN  /\ r = (n + shift_samples \div 2) \div shift_samples
                /\ (2 * r - 1) * shift_samples <= 2 * n
                /\ 2 * n < (2 * r + 1) * shift_samples

\* after finalization the count was rounded up from exactly one half
HalfRoundedUp ==
    /\ ~opts.snip_edges
    /\ input_finished
    /\ status = "ok"
    /\ Len(features) >= 1
    /\ 2 * total_samples = (2 * Len(features) - 1) * shift_samples

\* ---- C10 ---------------------------------------------------------------------
\* C10: after each accept_waveform or input_finished call returns, the
\* buffer holds fewer than frame_samples + shift_samples samples.
BufferBounded ==
    status = "ok" => Len(waveform) < frame_samples + shift_samples

\* ---- the accumulator queried ------------------------------------------------

\* OnlineFeature::num_frames_ready
num_frames_ready == Len(features)

\* OnlineFeature::get_frame: self.features.get(frame), an Option
get_frame(frame) ==
    IF frame < Len(features)
    THEN [outcome |-> "Some", value |-> features[frame + 1]]
    ELSE [outcome |-> "None", value |-> <<>>]

\* a get_frame call, its argument, the ready count it met and its result
\* recorded in got
GetFrame ==
    /\ status = "ok"
    /\ \E frame \in 0..(MaxSamples + 1) :
           got' = [frame |-> frame, ready |-> num_frames_ready,
                   result |-> get_frame(frame)]
    /\ UNCHANGED <<online_vars, accepted, extract_calls, window_function,
                   last_call, component_vars>>

\* accept_waveform at the configured rate
AcceptWaveformAtRate ==
    /\ status = "ok"
    /\ \E chunk \in SeqsUpTo(MaxChunk) :
        /\ Len(accepted) + Len(chunk) <= MaxSamples
        /\ accept_waveform(opts.samp_freq, chunk)
    /\ UNCHANGED last_call

QueryNext == AcceptWaveformAtRate \/ InputFinished \/ GetFrame

QuerySpec == Init /\ [][QueryNext]_vars

\* ---- the accumulator over recognized and unrecognized window types --------

\* window_type is a free-form string: a recognized name, a name only the
\* upstream enumeration has, and a misspelt one
WindowTypeInputs == {"povey", "triangular", "hanning "}

WindowSpec ==
    /\ \E o \in ConfigsWith(WindowTypeInputs) : OnlineFeature_new(o)
    /\ [][Next]_vars

\* ---- the feature computers -----------------------------------------------
\* Log-domain numbers (log energies, cepstra) are integers in thousandths.
\* An energy is [zero |-> TRUE, ln |-> 0] or [zero |-> FALSE, ln |-> its
\* natural logarithm]; energy_floor is held the same way, with
\* positive |-> FALSE for a floor that is not > 0.

MaxBins == 2
MaxCeps == 3

\* ln(1e-20)
LnEpsilon == -46052

\* -1e10, saturated to the least integer of the model
NoFloor == -2147483647

\* SQRT2, in thousandths
Sqrt2Milli == 1414

\* utils::log_energy
log_energy(energy) ==
    IF energy.zero \/ energy.ln < LnEpsilon THEN LnEpsilon ELSE energy.ln

\* log_energy_floor as FbankComputer::new and MfccComputer::new set it
log_energy_floor(c) ==
    IF c.energy_floor.positive THEN c.energy_floor.ln ELSE NoFloor

\* mutant of floor_energy: the floor is not applied
floor_energy_skipped(c, signal_raw_log_energy) == signal_raw_log_energy

\* the energy-floor step of both compute functions
floor_energy(c, signal_raw_log_energy) ==
    IF c.energy_floor.positive /\ signal_raw_log_energy < log_energy_floor(c)
    THEN log_energy_floor(c)
    ELSE signal_raw_log_energy

\* step 1 of both compute functions: the energy of the windowed frame
\* replaces the raw one when use_energy && !raw_energy
frame_log_energy(c, signal_raw_log_energy, frame_energy) ==
    IF c.use_energy /\ ~c.raw_energy
    THEN log_energy(frame_energy)
    ELSE signal_raw_log_energy

\* FbankComputer::dim
FbankComputer_dim(c) ==
    c.num_bins + (IF c.use_energy /\ ~c.htk_compat THEN 1 ELSE 0)

\* MfccComputer::dim
MfccComputer_dim(c) == c.num_ceps

\* FeatureComputer::dim
dim(c) == IF c.kind = "Fbank" THEN FbankComputer_dim(c) ELSE MfccComputer_dim(c)

\* vec![0.0; len]
zeros(len) == [i \in 1..len |-> [kind |-> "init", value |-> 0]]

\* FbankComputer::compute on an output vector feature_in.  The slot that
\* MelBanks::compute fills for bin r holds [kind |-> "mel", value |-> r];
\* MelBanks::compute asserts that the slice it is given has num_bins slots.
FbankComputer_compute(c, signal_raw_log_energy, frame_energy, feature_in) ==
    LET energy == frame_log_energy(c, signal_raw_log_energy, frame_energy)
        mel_offset == IF c.use_energy /\ ~c.htk_compat THEN 1 ELSE 0
        with_mel == [i \in 1..Len(feature_in) |->
                        IF i > mel_offset
                        THEN [kind |-> "mel", value |-> i - 1 - mel_offset]
                        ELSE feature_in[i]]
        energy_index == IF c.htk_compat THEN c.num_bins ELSE 0
    IN  IF mel_offset > Len(feature_in)
        THEN [outcome |-> "panic", at |-> "slice", out |-> feature_in]
        ELSE IF Len(feature_in) - mel_offset # c.num_bins
        THEN [outcome |-> "panic", at |-> "MelBanks::compute", out |-> feature_in]
        ELSE IF ~c.use_energy
        THEN [outcome |-> "ok", at |-> "return", out |-> with_mel]
        ELSE IF energy_index >= Len(feature_in)
        THEN [outcome |-> "panic", at |-> "feature[energy_index]", out |-> with_mel]
        ELSE [outcome |-> "ok", at |-> "return",
              out |-> [with_mel EXCEPT ![energy_index + 1] =
                          [kind |-> "energy", value |-> floor_energy(c, energy)]]]

\* energy *= SQRT2
scale_sqrt2(v) == (v * Sqrt2Milli) \div 1000

\* mutant of htk_rotate: coefficient 0 is moved unscaled
htk_rotate_unscaled(c, feat) ==
    [i \in 1..Len(feat) |->
        IF i < c.num_ceps THEN feat[i + 1]
        ELSE IF i = c.num_ceps THEN feat[1]
        ELSE feat[i]]

\* the HTK step of MfccComputer::compute
htk_rotate(c, feat) ==
    LET energy == IF ~c.use_energy
                  THEN [feat[1] EXCEPT !.value = scale_sqrt2(feat[1].value)]
                  ELSE feat[1]
    IN  [i \in 1..Len(feat) |->
            IF i < c.num_ceps THEN feat[i + 1]
            ELSE IF i = c.num_ceps THEN energy
            ELSE feat[i]]

\* MfccComputer::compute; cepstra[i] is what the transform, mel, DCT and
\* lifter steps leave in feature[i - 1]
MfccComputer_compute(c, signal_raw_log_energy, frame_energy, cepstra, feature_in) ==
    LET energy == frame_log_energy(c, signal_raw_log_energy, frame_energy)
        with_dct == [i \in 1..Len(feature_in) |->
                        IF i <= c.num_ceps
                        THEN [kind |-> "cepstrum", value |-> cepstra[i]]
                        ELSE feature_in[i]]
        with_energy == IF c.use_energy
                       THEN [with_dct EXCEPT ![1] =
                                [kind |-> "energy", value |-> floor_energy(c, energy)]]
                       ELSE with_dct
    IN  IF Len(feature_in) < c.num_ceps
        THEN [outcome |-> "panic", at |-> "feature[i]", out |-> feature_in]
        ELSE [outcome |-> "ok", at |-> "return",
              out |-> IF c.htk_compat THEN htk_rotate(c, with_energy)
                      ELSE with_energy]

\* the energy_floor settings: none, below and above 1.0
EnergyFloors ==
    {[positive |-> FALSE, ln |-> 0],
     [positive |-> TRUE, ln |-> -3000],
     [positive |-> TRUE, ln |-> 1000]}

FbankOptions ==
    [kind : {"Fbank"}, num_bins : 1..MaxBins, num_ceps : {0},
     use_energy : BOOLEAN, raw_energy : BOOLEAN, htk_compat : BOOLEAN,
     energy_floor : EnergyFloors]

MfccOptions ==
    [kind : {"Mfcc"}, num_bins : {MaxBins}, num_ceps : 1..MaxCeps,
     use_energy : BOOLEAN, raw_energy : BOOLEAN, htk_compat : BOOLEAN,
     energy_floor : EnergyFloors]

\* raw log-energy arguments, one below the clamp of log_energy included
LogEnergies == {-60000, -5000, 2000}

\* inner products of the windowed frame
FrameEnergies ==
    {[zero |-> TRUE, ln |-> 0], [zero |-> FALSE, ln |-> -4000],
     [zero |-> FALSE, ln |-> 1500]}

CepstrumValues == {-1000, 2000}

\* the accumulator the computers are exercised beside
IdleConfig ==
    [samp_freq |-> ModelSampFreq, frame_shift_ms |-> 1, frame_length_ms |-> 1,
     snip_edges |-> TRUE, window_type |-> "povey"]

idle_vars == <<opts, waveform, waveform_offset, input_finished, features,
               accepted, extract_calls, window_function, last_call, got,
               mel_banks, rfft, applied>>

\* FbankComputer::new, the mel range being valid
FbankComputer_new ==
    /\ status = "ok"
    /\ computer = Unused
    /\ \E o \in FbankOptions : computer' = o
    /\ UNCHANGED <<idle_vars, status, feature>>

\* MfccComputer::new, the mel range being valid
MfccComputer_new ==
    /\ status = "ok"
    /\ computer = Unused
    /\ \E o \in MfccOptions : computer' = o
    /\ UNCHANGED <<idle_vars, status, feature>>

\* the call and its result, as recorded in feature
computed(signal_raw_log_energy, frame_energy, cepstra, len, result) ==
    [signal_raw_log_energy |-> signal_raw_log_energy,
     frame_energy |-> frame_energy, cepstra |-> cepstra, len |-> len,
     outcome |-> result.outcome, at |-> result.at, out |-> result.out]

\* FbankComputer::compute on a vector of dim() zeros, as compute_new calls
\* it, or on one of num_bins + 1 zeros
FbankCompute ==
    /\ status = "ok"
    /\ computer.kind = "Fbank"
    /\ \E signal_raw_log_energy \in LogEnergies, frame_energy \in FrameEnergies,
          len \in {dim(computer), computer.num_bins + 1} :
        LET result == FbankComputer_compute(computer, signal_raw_log_energy,
                                            frame_energy, zeros(len))
        IN  /\ feature' = computed(signal_raw_log_energy, frame_energy, <<>>,
                                   len, result)
            /\ status' = IF result.outcome = "panic" THEN "panic" ELSE "ok"
    /\ UNCHANGED <<idle_vars, computer>>

\* MfccComputer::compute on a vector of dim() zeros
MfccCompute ==
    /\ status = "ok"
    /\ computer.kind = "Mfcc"
    /\ \E signal_raw_log_energy \in LogEnergies, frame_energy \in FrameEnergies,
          cepstra \in [1..computer.num_ceps -> CepstrumValues] :
        LET len == dim(computer)
            result == MfccComputer_compute(computer, signal_raw_log_energy,
                                           frame_energy, cepstra, zeros(len))
        IN  /\ feature' = computed(signal_raw_log_energy, frame_energy, cepstra,
                                   len, result)
            /\ status' = IF result.outcome = "panic" THEN "panic" ELSE "ok"
    /\ UNCHANGED <<idle_vars, computer>>

ComputeNext ==
    FbankComputer_new \/ MfccComputer_new \/ FbankCompute \/ MfccCompute

ComputeSpec == OnlineFeature_new(IdleConfig) /\ [][ComputeNext]_vars

\* ---- construction of the mel filterbank ------------------------------------
\* An f32 is [nan |-> TRUE, v |-> 0] or [nan |-> FALSE, v |-> an integer];
\* every comparison with a NaN operand is false, every sum with one is NaN.

NaN == [nan |-> TRUE, v |-> 0]

Num(v) == [nan |-> FALSE, v |-> v]

lt(a, b) == ~a.nan /\ ~b.nan /\ a.v < b.v

le(a, b) == ~a.nan /\ ~b.nan /\ a.v <= b.v

gt(a, b) == ~a.nan /\ ~b.nan /\ a.v > b.v

ge(a, b) == ~a.nan /\ ~b.nan /\ a.v >= b.v

add(a, b) == IF a.nan \/ b.nan THEN NaN ELSE Num(a.v + b.v)

\* 0.5 * sample_freq, the rates of the model being even
nyquist_of(o) == Num(o.samp_freq \div 2)

\* high_freq as MelBanks::new resolves it
resolved_high_freq(mel_opts, o) ==
    IF gt(mel_opts.high_freq, Num(0))
    THEN mel_opts.high_freq
    ELSE add(nyquist_of(o), mel_opts.high_freq)

\* the range test of MelBanks::new
range_rejected(mel_opts, o) ==
    LET nyquist == nyquist_of(o)
        high_freq == resolved_high_freq(mel_opts, o)
    IN  \/ lt(mel_opts.low_freq, Num(0))
        \/ ge(mel_opts.low_freq, nyquist)
        \/ le(high_freq, Num(0))
        \/ gt(high_freq, nyquist)
        \/ le(high_freq, mel_opts.low_freq)

\* MelBanks::new, as far as its Result goes
MelBanks_new(mel_opts, o) ==
    [low_freq |-> mel_opts.low_freq, high_freq |-> mel_opts.high_freq,
     result |-> IF range_rejected(mel_opts, o) THEN "Err" ELSE "Ok"]

\* low_freq and high_freq settings around 0 and the Nyquist frequency
LowFreqs ==
    {NaN} \cup {Num(v) : v \in {-20, 0, 20, (ModelSampFreq \div 2) - 1,
                                ModelSampFreq \div 2, ModelSampFreq}}

HighFreqs ==
    {NaN} \cup {Num(v) : v \in {-ModelSampFreq, -(ModelSampFreq \div 2), -400,
                                0, 20, 400, ModelSampFreq \div 2,
                                (ModelSampFreq \div 2) + 1}}

MelOptions == [low_freq : LowFreqs, high_freq : HighFreqs]

mel_idle_vars == <<online_vars, accepted, extract_calls, last_call, got, feature,
                   rfft, applied>>

\* MelBanks::new called directly
NewMelBanks ==
    /\ \E mel_opts \in MelOptions :
          mel_banks' = MelBanks_new(mel_opts, opts)
    /\ computer' = Unused
    /\ UNCHANGED mel_idle_vars

\* FbankComputer::new and MfccComputer::new: MelBanks::new(..)? on the
\* options' mel_opts
NewComputer ==
    /\ \E mel_opts \in MelOptions, kind \in {"Fbank", "Mfcc"} :
          /\ mel_banks' = MelBanks_new(mel_opts, opts)
          /\ computer' = [kind |-> kind, result |-> mel_banks'.result]
    /\ UNCHANGED mel_idle_vars

\* WhisperComputer::new: MelBanks::new(..)? on the default mel options
\* with low_freq set to 0.0
NewWhisperComputer ==
    /\ mel_banks' = MelBanks_new([low_freq |-> Num(0), high_freq |-> Num(0)], opts)
    /\ computer' = [kind |-> "Whisper", result |-> mel_banks'.result]
    /\ UNCHANGED mel_idle_vars

MelNext == NewMelBanks \/ NewComputer \/ NewWhisperComputer

MelSpec == OnlineFeature_new(IdleConfig) /\ [][MelNext]_vars

\* ---- the weights of the mel filterbank --------------------------------------
\* A frequency is the fraction num/den of whole numbers of Hz.  A mel value
\* is a whole number of 1/MelUnit mel, about the resolution of an f32 at
\* these magnitudes.  A weight is the fraction [num, den] of two mel
\* differences.

MelUnit == 10000

\* MelBanks::mel_scale: 1127 ln(1 + f/700), by ln(1 + x) = 2 atanh(x/(2 + x))
\* summed up to the ninth power
mel_scale(num, den) ==
    LET z == (num * MelUnit) \div (1400 * den + num)
        z2 == (z * z) \div MelUnit
        z3 == (z2 * z) \div MelUnit
        z5 == (z3 * z2) \div MelUnit
        z7 == (z5 * z2) \div MelUnit
        z9 == (z7 * z2) \div MelUnit
    IN  2254 * (z + z3 \div 3 + z5 \div 5 + z7 \div 7 + z9 \div 9)

\* mutant of triangle_weight: the rising edge is used on both sides of the
\* centre
triangle_weight_rising(mel, left_mel, center_mel, right_mel) ==
    IF mel > left_mel /\ mel < right_mel
    THEN [num |-> mel - left_mel, den |-> center_mel - left_mel]
    ELSE [num |-> 0, den |-> 1]

\* the weight of one spectral bin in one mel bin
triangle_weight(mel, left_mel, center_mel, right_mel) ==
    IF mel > left_mel /\ mel < right_mel
    THEN IF mel <= center_mel
         THEN [num |-> mel - left_mel, den |-> center_mel - left_mel]
         ELSE [num |-> right_mel - mel, den |-> right_mel - center_mel]
    ELSE [num |-> 0, den |-> 1]

\* weight > 0.0
positive(w) == (w.num > 0 /\ w.den > 0) \/ (w.num < 0 /\ w.den < 0)

\* MelBanks::new with vtln_warp = 1.0: the Result and, when Ok, the matrix
\* of weights, one row per mel bin and one column per spectral bin
MelBanks_weights(mel_opts, o) ==
    IF range_rejected(mel_opts, o) THEN [result |-> "Err"]
    ELSE
    LET window_length_padded == padded_window_size(o)
        num_fft_bins == window_length_padded \div 2
        mel_low == mel_scale(mel_opts.low_freq.v, 1)
        mel_high == mel_scale(resolved_high_freq(mel_opts, o).v, 1)
        mel_delta == (mel_high - mel_low) \div (mel_opts.num_bins + 1)
        weight(bin, i) ==
            LET w == triangle_weight(
                        mel_scale(o.samp_freq * i, window_length_padded),
                        mel_low + bin * mel_delta,
                        mel_low + (bin + 1) * mel_delta,
                        mel_low + (bin + 2) * mel_delta)
            IN  IF positive(w) THEN w ELSE [num |-> 0, den |-> 1]
    IN  [result |-> "Ok", num_bins |-> mel_opts.num_bins,
         num_fft_bins |-> num_fft_bins,
         weights |-> [bin \in 1..mel_opts.num_bins |->
                        [i \in 1..num_fft_bins |-> weight(bin - 1, i - 1)]]]

MaxWeightBins == 4
MinWeightFrameMs == 4
MaxWeightFrameMs == 16

WeightFrameOptions ==
    [samp_freq : {ModelSampFreq, 2 * ModelSampFreq}, frame_shift_ms : {1},
     frame_length_ms : MinWeightFrameMs..MaxWeightFrameMs,
     round_to_power_of_two : BOOLEAN, window_type : {"povey"}]

WeightMelOptions ==
    [num_bins : 1..MaxWeightBins,
     low_freq : {Num(v) : v \in {0, 20, 100}},
     high_freq : {Num(v) : v \in {-100, 0, 400}}]

\* MelBanks::new(&mel_opts, &frame_opts, 1.0)
NewMelBanksWeights ==
    /\ mel_banks = Unused
    /\ \E mel_opts \in WeightMelOptions, o \in WeightFrameOptions :
          mel_banks' = [mel_opts |-> mel_opts, frame_opts |-> o,
                        built |-> MelBanks_weights(mel_opts, o)]
    /\ UNCHANGED <<mel_idle_vars, computer>>

MelWeightSpec == OnlineFeature_new(IdleConfig) /\ [][NewMelBanksWeights]_vars

\* ---- the real transform -----------------------------------------------------
\* Numbers are held exactly.  For a transform of length n let zeta be the
\* root of unity exp(-2 pi i / N), N the least common multiple of n and 4,
\* so that the n-th roots of unity and i are powers of zeta.  A real or
\* complex number r is held as the tuple of integer coordinates of 2r on
\* the powers zeta^0 .. zeta^(d-1); red gives zeta^d on those powers.

\* the transform lengths: powers of two and an even length that is none
Lengths == {2, 4, 6, 8}

SignalValues == {-1, 2}

\* the ring for length n: zeta^2 = -1 for N = 4, zeta^4 = -1 for N = 8,
\* zeta^4 = zeta^2 - 1 for N = 12
ring(n) ==
    IF n = 6 THEN [order |-> 12, red |-> <<-1, 0, 1, 0>>]
    ELSE IF n = 8 THEN [order |-> 8, red |-> <<-1, 0, 0, 0>>]
    ELSE [order |-> 4, red |-> <<-1, 0>>]

\* a function on 1..n as an explicit tuple
tuple(f) == f \o <<>>

\* the coordinates c on zeta^0 and 0 elsewhere
rational(R, c) == tuple([j \in 1..Len(R.red) |-> IF j = 1 THEN c ELSE 0])

\* the number v
number(R, v) == rational(R, 2 * v)

plus(a, b) == tuple([j \in 1..Len(a) |-> a[j] + b[j]])

minus(a, b) == tuple([j \in 1..Len(a) |-> a[j] - b[j]])

scale(a, c) == tuple([j \in 1..Len(a) |-> c * a[j]])

half(a) == tuple([j \in 1..Len(a) |-> a[j] \div 2])

mul_zeta(R, e) ==
    LET d == Len(R.red)
    IN  tuple([j \in 1..d |-> (IF j = 1 THEN 0 ELSE e[j - 1]) + e[d] * R.red[j]])

RECURSIVE zeta_pow(_, _, _)
zeta_pow(R, e, m) ==
    IF m = 0 THEN e ELSE zeta_pow(R, mul_zeta(R, e), m - 1)

\* e * zeta^m
times_root(R, e, m) == zeta_pow(R, e, m % R.order)

\* e * zeta^(-m)
times_root_inverse(R, e, m) ==
    zeta_pow(R, e, (R.order - (m % R.order)) % R.order)

RECURSIVE sum_seq(_, _)
sum_seq(R, terms) ==
    IF terms = <<>> THEN number(R, 0)
    ELSE plus(Head(terms), sum_seq(R, Tail(terms)))

\* the complex conjugate: zeta^j goes to zeta^(-j)
conj(R, e) ==
    sum_seq(R, [j \in 1..Len(e) |->
                   times_root_inverse(R, rational(R, e[j]), j - 1)])

\* Complex::re and Complex::im; -i is zeta^(N/4)
re(R, z) == half(plus(z, conj(R, z)))

im(R, z) == half(times_root(R, minus(z, conj(R, z)), R.order \div 4))

\* Complex::new(a, b) = a + i b; i is zeta^(3N/4)
Complex_new(R, a, b) == plus(a, times_root(R, b, 3 * (R.order \div 4)))

\* realfft's RealToComplex::process: bins 0 .. n/2 of the discrete Fourier
\* transform, X[k] = sum over j of x[j] exp(-2 pi i j k / n)
r2c_process(R, n, input_real) ==
    tuple([k1 \in 1..(n \div 2 + 1) |->
        sum_seq(R, [j1 \in 1..n |->
            times_root(R, input_real[j1],
                       (R.order \div n) * (j1 - 1) * (k1 - 1))])])

\* realfft's ComplexToReal::process: the unnormalized inverse of the
\* spectrum that bins 0 .. n/2 determine by conjugate symmetry, bins 0 and
\* n/2 taken as real
c2r_process(R, n, input_complex) ==
    [j1 \in 1..n |->
        LET turned(k1) == times_root_inverse(R, input_complex[k1],
                              (R.order \div n) * (j1 - 1) * (k1 - 1))
            nyquist_bin == re(R, input_complex[n \div 2 + 1])
        IN  plus(plus(re(R, input_complex[1]),
                      IF (j1 - 1) % 2 = 0 THEN nyquist_bin
                      ELSE minus(number(R, 0), nyquist_bin)),
                 sum_seq(R, [k \in 1..(n \div 2 - 1) |->
                     plus(turned(k + 1), conj(R, turned(k + 1)))]))]

\* Rfft::compute_forward: transform, then pack as
\* [Re 0, Re n/2, Re 1, Im 1, Re 2, Im 2, ...]
compute_forward(R, n, data) ==
    LET output_complex == r2c_process(R, n, data)
    IN  [p \in 1..n |->
            IF p = 1 THEN re(R, output_complex[1])
            ELSE IF p = 2 THEN re(R, output_complex[n \div 2 + 1])
            ELSE IF (p - 1) % 2 = 0 THEN re(R, output_complex[(p - 1) \div 2 + 1])
            ELSE im(R, output_complex[(p - 1) \div 2 + 1])]

\* mutant of unpack: data[1] is not taken as bin n/2
unpack_without_nyquist(R, n, data) ==
    [k1 \in 1..(n \div 2 + 1) |->
        IF k1 = 1 THEN Complex_new(R, data[1], number(R, 0))
        ELSE IF k1 = n \div 2 + 1 THEN number(R, 0)
        ELSE Complex_new(R, data[2 * (k1 - 1) + 1], data[2 * (k1 - 1) + 2])]

\* the unpacking step of Rfft::compute_inverse
unpack(R, n, data) ==
    [k1 \in 1..(n \div 2 + 1) |->
        IF k1 = 1 THEN Complex_new(R, data[1], number(R, 0))
        ELSE IF k1 = n \div 2 + 1 THEN Complex_new(R, data[2], number(R, 0))
        ELSE Complex_new(R, data[2 * (k1 - 1) + 1], data[2 * (k1 - 1) + 2])]

\* Rfft::compute_inverse
compute_inverse(R, n, data) == c2r_process(R, n, tuple(unpack(R, n, data)))

rfft_idle_vars == <<online_vars, accepted, extract_calls, last_call, got,
                    computer, feature, mel_banks, applied>>

\* Rfft::new(n, false) and compute on a signal of length n
RfftForward ==
    /\ rfft = Unused
    /\ \E n \in Lengths :
       \E signal \in [1..n -> SignalValues] :
          LET original == [j \in 1..n |-> number(ring(n), signal[j])]
          IN  rfft' = [inverse |-> FALSE, n |-> n, original |-> original,
                       data |-> compute_forward(ring(n), n, original)]
    /\ UNCHANGED rfft_idle_vars

\* Rfft::new(n, true) and compute on the packed spectrum
RfftInverse ==
    /\ rfft # Unused
    /\ ~rfft.inverse
    /\ rfft' = [rfft EXCEPT !.inverse = TRUE,
                            !.data = compute_inverse(ring(rfft.n), rfft.n, rfft.data)]
    /\ UNCHANGED rfft_idle_vars

RfftNext == RfftForward \/ RfftInverse

RfftSpec == OnlineFeature_new(IdleConfig) /\ [][RfftNext]_vars

\* ---- the functions of window.rs applied on their own -----------------------

MaxGeometryFrameMs == 6
MaxGeometrySamples == 12

\* frame options with frames long enough to span several shifts
GeometryConfigs ==
    [samp_freq       : {ModelSampFreq},
     frame_shift_ms  : 1..MaxShiftMs,
     frame_length_ms : 1..MaxGeometryFrameMs,
     snip_edges      : BOOLEAN,
     window_type     : {"povey"}]

window_idle_vars == <<online_vars, last_call, got, computer, feature,
                      mel_banks, rfft>>

\* mutant of extract_window_into: the buffer is zeroed before the range
\* checks
extract_window_zeroing(sample_offset, wave, frame_index, o, window_out) ==
    LET r == extract_window(sample_offset, wave, frame_index, o)
    IN  [result |-> r.result,
         window_out |->
            [i \in 1..Len(window_out) |->
                IF r.result = "Ok" /\ i <= window_size(o)
                THEN r.window_out[i] ELSE 0]]

\* extract_window with its output buffer: untouched when Err is returned,
\* else filled with zeros and then with the frame's samples
extract_window_into(sample_offset, wave, frame_index, o, window_out) ==
    LET r == extract_window(sample_offset, wave, frame_index, o)
    IN  IF r.result = "Err"
        THEN [result |-> "Err", window_out |-> window_out]
        ELSE [result |-> r.result,
              window_out |->
                 [i \in 1..Len(window_out) |->
                     IF r.result = "Ok" /\ i <= window_size(o)
                     THEN r.window_out[i] ELSE 0]]

MaxExtractOffset == 3
MaxExtractWave == 4
MaxFrameIndex == 3

\* a buffer of len entries left over from an earlier frame
stale(len) == [i \in 1..len |-> 1]

\* num_frames(num_samples, &o, flush)
NumFrames ==
    /\ applied = Unused
    /\ \E o \in GeometryConfigs, num_samples \in 0..MaxGeometrySamples,
          flush \in BOOLEAN :
          applied' = [fn |-> "num_frames", opts |-> o,
                      num_samples |-> num_samples, flush |-> flush,
                      result |-> num_frames(num_samples, o, flush)]
    /\ UNCHANGED window_idle_vars

\* extract_window(sample_offset, &wave, frame_index, &o, None, &mut buffer)
\* on a buffer of window_size() or more entries
ExtractWindow ==
    /\ applied = Unused
    /\ \E o \in Configs, sample_offset \in 0..MaxExtractOffset,
          wave \in SeqsUpTo(MaxExtractWave), frame_index \in 0..MaxFrameIndex,
          spare \in {0, 1} :
          LET before == stale(window_size(o) + spare)
              r == extract_window_into(sample_offset, wave, frame_index, o, before)
          IN  applied' = [fn |-> "extract_window", opts |-> o,
                          sample_offset |-> sample_offset, wave |-> wave,
                          frame_index |-> frame_index, before |-> before,
                          result |-> r.result, window_out |-> r.window_out]
    /\ UNCHANGED window_idle_vars

DefaultSampFreq == 16000
DefaultFrameLengthMs == 25
MaxSizeMs == 25

SizeConfigs ==
    [samp_freq : {ModelSampFreq, DefaultSampFreq},
     frame_shift_ms : 0..MaxSizeMs, frame_length_ms : 0..MaxSizeMs,
     round_to_power_of_two : BOOLEAN, window_type : {"povey", "hamming"}]

\* window_shift(), window_size(), padded_window_size() and Window::new of
\* one FrameOptions value
DeriveSizes ==
    /\ applied = Unused
    /\ \E o \in SizeConfigs :
          applied' = [fn |-> "sizes", opts |-> o,
                      window_shift |-> window_shift(o),
                      window_size |-> window_size(o),
                      padded_window_size |-> padded_window_size(o),
                      window |-> Window_new(o)]
    /\ UNCHANGED window_idle_vars

GeometryNext == NumFrames \/ ExtractWindow \/ DeriveSizes

GeometrySpec == OnlineFeature_new(IdleConfig) /\ [][GeometryNext]_vars

\* ---- C11 ---------------------------------------------------------------------
accumulator_state == <<waveform, waveform_offset, input_finished, features>>

InputFinishedIdempotent ==
    [][(last_call.op = "input_finished" /\ status = "ok"
        /\ last_call'.op = "input_finished")
       => UNCHANGED accumulator_state]_vars

\* input_finished was called twice in a row on a stream whose first
\* input_finished call had flushed a trailing frame
FinishedTwice ==
    /\ status = "ok"
    /\ last_call.repeated
    /\ Len(accepted) > 0
    /\ Len(features) > num_frames(Len(accepted), opts, FALSE)

\* ---- C19 ---------------------------------------------------------------------
\* C19 as stated: a get_frame call whose index is at or past
\* num_frames_ready() aborts, it does not return to the caller; a call
\* with a smaller index returns that frame.
GetFramePastReadyFatal ==
    got # Unused =>
        IF got.frame >= got.ready
        THEN got.result.outcome = "panic"
        ELSE got.result.outcome = "Some"

\* ---- C18 ---------------------------------------------------------------------
\* C18 as stated: an unrecognized window type is rejected at construction,
\* so an accumulator whose window type is unrecognized never holds a
\* computed frame.
NoFrameUnderUnrecognizedWindow ==
    opts.window_type \notin WindowTypes =>
        (status = "config_error" \/ features = <<>>)

\* ---- C13 ---------------------------------------------------------------------
\* C13 as stated: Fbank compute on an output vector of length dim()
\* returns for every use_energy / htk_compat combination and has then
\* written all dim() slots, dim() being num_bins + 1 with use_energy and
\* without htk_compat and num_bins otherwise.
FbankComputeFillsDim ==
    (computer.kind = "Fbank" /\ feature # Unused
     /\ feature.len = FbankComputer_dim(computer))
    => /\ FbankComputer_dim(computer) =
              IF computer.use_energy /\ ~computer.htk_compat
              THEN computer.num_bins + 1 ELSE computer.num_bins
       /\ feature.outcome = "ok"
       /\ Len(feature.out) = FbankComputer_dim(computer)
       /\ \A i \in 1..Len(feature.out) : feature.out[i].kind # "init"

\* ---- C14 ---------------------------------------------------------------------
\* C14 as stated: an Fbank computation with use_energy yields num_bins mel
\* values and one energy value; without htk_compat the energy is at index 0
\* and mel bin b at index b + 1, with htk_compat mel bin b is at index b and
\* the energy at index num_bins.
FbankEnergyLayout ==
    (computer.kind = "Fbank" /\ computer.use_energy /\ feature # Unused)
    => /\ feature.outcome = "ok"
       /\ Len(feature.out) = computer.num_bins + 1
       /\ LET energy_at == IF computer.htk_compat THEN computer.num_bins ELSE 0
              mel_at(b) == IF computer.htk_compat THEN b ELSE b + 1
          IN  /\ feature.out[energy_at + 1].kind = "energy"
              /\ \A b \in 0..(computer.num_bins - 1) :
                    feature.out[mel_at(b) + 1] = [kind |-> "mel", value |-> b]

\* ---- C15 ---------------------------------------------------------------------
\* the index of the energy entry in a computer's output
energy_entry(c) ==
    IF c.kind = "Fbank"
    THEN (IF c.htk_compat THEN c.num_bins ELSE 0)
    ELSE (IF c.htk_compat THEN c.num_ceps - 1 ELSE 0)

\* C15: with energy_floor > 0 and use_energy, the energy entry of every
\* vector an Fbank or MFCC computation produces, in either layout, is an
\* energy value not below ln(energy_floor).
EnergyNotBelowFloor ==
    (computer # Unused /\ feature # Unused /\ feature.outcome = "ok"
     /\ computer.use_energy /\ computer.energy_floor.positive)
    => /\ feature.out[energy_entry(computer) + 1].kind = "energy"
       /\ feature.out[energy_entry(computer) + 1].value >= computer.energy_floor.ln

\* an MFCC vector in HTK layout was produced from a raw log energy below
\* the floor
EnergyFloored ==
    /\ computer.kind = "Mfcc" /\ computer.htk_compat /\ computer.num_ceps > 1
    /\ computer.use_energy /\ computer.raw_energy
    /\ computer.energy_floor.positive
    /\ feature # Unused /\ feature.outcome = "ok"
    /\ feature.signal_raw_log_energy < computer.energy_floor.ln

\* ---- C16 ---------------------------------------------------------------------
\* the vector MfccComputer::compute gives for the recorded call with
\* htk_compat disabled
out_without_htk ==
    MfccComputer_compute([computer EXCEPT !.htk_compat = FALSE],
                         feature.signal_raw_log_energy, feature.frame_energy,
                         feature.cepstra, zeros(feature.len)).out

\* C16 as stated: for every MFCC configuration the HTK output is the
\* non-HTK output rotated left by one: out_htk[i] = out[i+1] for
\* i < num_ceps-1 and out_htk[num_ceps-1] = out[0].
HtkIsRotation ==
    (computer.kind = "Mfcc" /\ computer.htk_compat /\ feature # Unused
     /\ feature.outcome = "ok")
    => /\ \A i \in 1..(computer.num_ceps - 1) :
             feature.out[i] = out_without_htk[i + 1]
       /\ feature.out[computer.num_ceps] = out_without_htk[1]

\* C16 amended: out_htk[i] = out[i+1] for i < num_ceps-1 in every MFCC
\* configuration; out_htk[num_ceps-1] = out[0] when use_energy is enabled,
\* and out_htk[num_ceps-1] = sqrt(2) * out[0] when it is disabled.
HtkIsScaledRotation ==
    (computer.kind = "Mfcc" /\ computer.htk_compat /\ feature # Unused
     /\ feature.outcome = "ok")
    => /\ \A i \in 1..(computer.num_ceps - 1) :
             feature.out[i] = out_without_htk[i + 1]
       /\ feature.out[computer.num_ceps].kind = out_without_htk[1].kind
       /\ feature.out[computer.num_ceps].value =
              IF computer.use_energy
              THEN out_without_htk[1].value
              ELSE (out_without_htk[1].value * Sqrt2Milli) \div 1000

\* an HTK vector of three cepstra was produced without use_energy from a
\* nonzero coefficient 0
HtkCoefficientScaled ==
    /\ computer.kind = "Mfcc" /\ computer.htk_compat /\ ~computer.use_energy
    /\ computer.num_ceps = 3
    /\ feature # Unused /\ feature.outcome = "ok"
    /\ feature.cepstra[1] # 0
    /\ feature.cepstra[2] # feature.cepstra[3]

\* ---- C17 ---------------------------------------------------------------------
\* the range the specification calls valid: 0 <= low_freq < nyquist,
\* 0 < high_freq <= nyquist and high_freq > low_freq, high_freq being the
\* configured value if positive and nyquist + configured value otherwise
valid_range(low_freq, configured_high, nyquist) ==
    LET high_freq == IF gt(configured_high, Num(0)) THEN configured_high
                     ELSE add(nyquist, configured_high)
    IN  /\ le(Num(0), low_freq) /\ lt(low_freq, nyquist)
        /\ lt(Num(0), high_freq) /\ le(high_freq, nyquist)
        /\ gt(high_freq, low_freq)

\* C17 as stated: constructing the mel filterbank, directly or through a
\* computer, gives a configuration error exactly when the frequency range
\* is not valid, and succeeds for every valid range.
MelRangeErrorExact ==
    mel_banks # Unused =>
        /\ (mel_banks.result = "Err") <=>
               ~valid_range(mel_banks.low_freq, mel_banks.high_freq,
                            nyquist_of(opts))
        /\ computer # Unused => computer.result = mel_banks.result

\* ---- C20 ---------------------------------------------------------------------
\* C20: for an even length n and a real signal of length n, the forward
\* transform followed by the inverse transform gives n times the signal,
\* element by element.
RoundTripScalesByLength ==
    (rfft # Unused /\ rfft.inverse)
    => \A j \in 1..rfft.n : rfft.data[j] = scale(rfft.original[j], rfft.n)

\* a round trip of length 6 was made on a signal that is not constant
RoundTripMade ==
    /\ rfft # Unused /\ rfft.inverse
    /\ rfft.n = 6
    /\ rfft.original[1] # rfft.original[2]
    /\ rfft.original[6] # rfft.original[1]

\* ---- C23 ---------------------------------------------------------------------
\* the larger of two integers
max(a, b) == IF a >= b THEN a ELSE b

\* C23 as stated: after a call in which compute_new produced new frames,
\* waveform_offset is the larger of its previous value and the first sample
\* of the next frame not yet computed.
OffsetAtNextFrame ==
    [][(status' = "ok" /\ Len(features') > Len(features))
       => waveform_offset' =
              max(waveform_offset,
                  first_sample_of_frame(Len(features'), opts))]_vars

\* ---- C27 ---------------------------------------------------------------------
\* C27: over any sequence of accept_waveform and input_finished calls the
\* number of ready frames never decreases, every vector already in features
\* stays in place unchanged, and no call extracts a frame that had been
\* computed before it.
AppendOnly ==
    [][/\ Len(features') >= Len(features)
       /\ SubSeq(features', 1, Len(features)) = features
       /\ \A c \in extract_calls' : c.frame >= Len(features)]_vars

\* input_finished has added frames to frames that earlier calls had computed
FramesKeptAcrossCalls ==
    /\ status = "ok"
    /\ input_finished
    /\ extract_calls # {}
    /\ Len(features) > Cardinality(extract_calls)

flush_gain ==
    applied.result - num_frames(applied.num_samples, applied.opts, FALSE)

\* C26 as stated: for every sample count, num_frames with flush exceeds
\* num_frames without flush by 0 or 1 in the centered regime and by 0 in the
\* snip regime.
FlushAddsAtMostOne ==
    (applied # Unused /\ applied.fn = "num_frames" /\ applied.flush)
    => IF applied.opts.snip_edges THEN flush_gain = 0 ELSE flush_gain \in {0, 1}

\* C26 amended: num_frames with flush is never below num_frames without
\* flush; the difference is 0 in the snip regime and at most
\* ceil(frame_samples / (2 * shift_samples)) in the centered regime, hence
\* 0 or 1 whenever frame_samples <= 2 * shift_samples.
FlushGainBounded ==
    (applied # Unused /\ applied.fn = "num_frames" /\ applied.flush)
    => LET frame_len == window_size(applied.opts)
           shift_len == window_shift(applied.opts)
       IN  /\ flush_gain >= 0
           /\ applied.opts.snip_edges => flush_gain = 0
           /\ flush_gain * 2 * shift_len < frame_len + 2 * shift_len
           /\ frame_len <= 2 * shift_len => flush_gain <= 1

\* flushing added two frames
FlushAddedTwo ==
    /\ applied # Unused /\ applied.fn = "num_frames" /\ applied.flush
    /\ ~applied.opts.snip_edges
    /\ flush_gain = 2

\* ---- C24 ---------------------------------------------------------------------
\* the recorded call is an extract_window call in the given regime
extracted(snip) ==
    /\ applied # Unused
    /\ applied.fn = "extract_window"
    /\ applied.opts.snip_edges = snip

\* index of the frame's first sample within the buffer of the recorded call
wave_start ==
    first_sample_of_frame(applied.frame_index, applied.opts)
        - applied.sample_offset

\* where the mirror rules idx < 0 -> -idx-1 and idx >= len -> 2*len-1-idx
\* end up: the position within the period 2*len, folded back
mirrored(idx, len) ==
    LET m == idx % (2 * len)
    IN  IF m < len THEN m ELSE 2 * len - 1 - m

\* the output holds, at every in-frame position, the sample at the
\* mirrored index
reads_mirrored ==
    \A s \in 0..(window_size(applied.opts) - 1) :
        applied.window_out[s + 1] =
            applied.wave[mirrored(s + wave_start, Len(applied.wave)) + 1]

\* C24 as stated: in the centered regime, for every frame index and every
\* non-empty buffer, extract_window returns Ok and every in-frame position
\* holds the sample at the mirrored index.
CenteredNeverFails ==
    (extracted(FALSE) /\ applied.wave # <<>>)
    => (applied.result = "Ok" /\ reads_mirrored)

\* C24 amended: in the centered regime, for a non-empty buffer,
\* extract_window returns Err when sample_offset > 0 and the frame starts
\* before sample_offset; in every other case the reflection loop ends, the
\* call returns Ok and every in-frame position holds the sample at the
\* mirrored index.
CenteredMirrorsFromOffset ==
    (extracted(FALSE) /\ applied.wave # <<>>)
    => IF applied.sample_offset > 0 /\ wave_start < 0
       THEN applied.result = "Err"
       ELSE applied.result = "Ok" /\ reads_mirrored

\* a frame of three samples was extracted from a buffer of one sample that
\* lies wholly before it
MirroredRepeatedly ==
    /\ extracted(FALSE)
    /\ applied.result = "Ok"
    /\ Len(applied.wave) = 1
    /\ window_size(applied.opts) = 3
    /\ wave_start >= 2

\* ---- C25 ---------------------------------------------------------------------
\* C25: in the snip regime extract_window returns Err exactly when the
\* frame's sample range is not inside [sample_offset, sample_offset +
\* wave.len()), and then leaves the output buffer as it was; otherwise it
\* returns Ok with the frame's samples copied from consecutive in-range
\* positions of the buffer.
SnipRangeChecked ==
    extracted(TRUE)
    => LET inside == /\ wave_start >= 0
                     /\ wave_start + window_size(applied.opts)
                            <= Len(applied.wave)
       IN  /\ (applied.result = "Err") <=> ~inside
           /\ applied.result = "Err" => applied.window_out = applied.before
           /\ applied.result # "Err" =>
                  /\ applied.result = "Ok"
                  /\ \A s \in 0..(window_size(applied.opts) - 1) :
                        applied.window_out[s + 1] =
                            applied.wave[s + wave_start + 1]

\* a snip-regime frame that starts inside the buffer and ends past it was
\* refused
SnipFrameNotReady ==
    /\ extracted(TRUE)
    /\ applied.result = "Err"
    /\ wave_start >= 0
    /\ wave_start < Len(applied.wave)

\* ---- C22 ---------------------------------------------------------------------
\* n is the integer part of samp_freq * 0.001 * ms
is_floor(n, samp_freq, ms) ==
    /\ n * 1000 <= samp_freq * ms
    /\ samp_freq * ms < (n + 1) * 1000

RECURSIVE is_power_of_two(_)
is_power_of_two(n) ==
    \/ n = 1
    \/ n > 1 /\ n % 2 = 0 /\ is_power_of_two(n \div 2)

\* C22: window_shift() and window_size() are the integer parts of
\* samp_freq*0.001*frame_shift_ms and samp_freq*0.001*frame_length_ms;
\* padded_window_size() is the smallest power of two >= window_size() when
\* round_to_power_of_two is set and window_size() otherwise; 16 kHz and
\* 25 ms give 400 and 512; a window built by Window::new has exactly
\* window_size() coefficients.
DerivedSizes ==
    (applied # Unused /\ applied.fn = "sizes")
    => LET o == applied.opts
           size == applied.window_size
           padded == applied.padded_window_size
       IN  /\ is_floor(applied.window_shift, o.samp_freq, o.frame_shift_ms)
           /\ is_floor(size, o.samp_freq, o.frame_length_ms)
           /\ o.round_to_power_of_two =>
                 /\ is_power_of_two(padded)
                 /\ padded >= size
                 /\ padded = 1 \/ padded \div 2 < size
           /\ ~o.round_to_power_of_two => padded = size
           /\ (o.samp_freq = DefaultSampFreq
                  /\ o.frame_length_ms = DefaultFrameLengthMs) =>
                 /\ size = 400
                 /\ o.round_to_power_of_two => padded = 512
           /\ applied.window.kind = "Some" => applied.window.len = size
           /\ applied.window.kind = "Some" <=> size > 0

\* the sizes of a frame whose length is already a power of two were derived
\* with rounding requested, and a window was built for it
PowerOfTwoFrameSized ==
    /\ applied # Unused
    /\ applied.fn = "sizes"
    /\ applied.opts.round_to_power_of_two
    /\ applied.window_size = 16
    /\ applied.padded_window_size = 16
    /\ applied.window.kind = "Some"

\* ---- C21 ---------------------------------------------------------------------
\* a filterbank was built for a valid configuration
weights_built ==
    /\ mel_banks # Unused
    /\ mel_banks.built.result = "Ok"

====
